---- MODULE Spec2Model ----
(***************************************************************************)
(* Model of pkg/httputils middleware (gurch101/go-web): the rate-limit     *)
(* middleware, its client store guarded by a mutex, the token-bucket       *)
(* limiter it queries and the background reaper that evicts idle entries.  *)
(*                                                                         *)
(* Time is a discrete clock whose tick is one minute (the reaper's sleep). *)
(* Token amounts are integers counted in 1/TokenUnit of a token, and a     *)
(* rate is the number of such units gained per tick.                       *)
(***************************************************************************)
EXTENDS Integers, Sequences, FiniteSets, TLC

(* ---------------------------- bounds ----------------------------------- *)
MaxTime == 4
MaxRequests == 2
MaxSeqRequests == 5
NumWorkers == 2
TokenUnit == 2

(* ------------------------ program constants ---------------------------- *)
defaultRateLimitRate == 10
defaultRateLimitBurst == 20
SweepInterval == 1
Staleness == 3
SecondsPerTick == 60

Workers == 1..NumWorkers
Reaper == NumWorkers + 1
Free == 0 - 1

(* Remote addresses the transport may hand to the handler, as character    *)
(* sequences: a connection of host a and one of host b.                    *)
Addrs ==
  { <<"a", ":", "1">>, <<"b", ":", "2">> }

(* A connection of host a, and an address with no port. *)
ErrAddrs ==
  { <<"a", ":", "1">>, <<"a">> }

(* Two connections of the same host. *)
SeqAddrs ==
  { <<"a", ":", "1">>, <<"a", ":", "2">> }

(* A connection of host a. *)
ChainAddrs ==
  { <<"a", ":", "1">> }

(* A connection of host a and one of an IPv6 host, whose host part the     *)
(* transport writes in brackets.                                           *)
V6Addrs ==
  { <<"a", ":", "1">>, <<"[", "a", ":", "b", "]", ":", "1">> }

(* Values the inner handler may panic with. *)
PanicValues == { "boom" }

(* Values an environment variable can have. *)
Unset == <<"unset">>
Bad == <<"bad">>
Val(x) == <<"val", x>>

(* Environments the process may be started in.  A rate is given in token   *)
(* units per tick, a burst in whole tokens.                                *)
Envs ==
  { [enabled |-> Val(FALSE), rate |-> Unset, burst |-> Unset],
    [enabled |-> Unset, rate |-> Bad, burst |-> Val(1)],
    [enabled |-> Unset, rate |-> Val(1), burst |-> Bad] }
  \cup
  { [enabled |-> Unset, rate |-> Val(0), burst |-> Val(1)],
    [enabled |-> Val(TRUE), rate |-> Val(1), burst |-> Val(2)] }

(* Environments of the sequential single-client scenarios: the defaults,   *)
(* no refill with a burst of one, and a fraction of a token or one token   *)
(* per tick.                                                               *)
SeqEnvs ==
  { [enabled |-> Unset, rate |-> Unset, burst |-> Unset],
    [enabled |-> Unset, rate |-> Val(0), burst |-> Val(1)] }
  \cup
  { [enabled |-> Unset, rate |-> Val(r), burst |-> Val(b)] :
      r \in {1, TokenUnit}, b \in {1, 2} }

(* Environments of the whole middleware chain: limiting disabled, a burst   *)
(* that does not parse, half a token per tick with a burst of one, a burst  *)
(* of zero and a burst below zero.                                          *)
ChainEnvs ==
  { [enabled |-> Val(FALSE), rate |-> Unset, burst |-> Unset],
    [enabled |-> Unset, rate |-> Val(1), burst |-> Bad],
    [enabled |-> Unset, rate |-> Val(1), burst |-> Val(1)],
    [enabled |-> Unset, rate |-> Val(1), burst |-> Val(0)],
    [enabled |-> Unset, rate |-> Val(1), burst |-> Val(0 - 1)] }

(* Environments of the concurrent clients of one host whose decisions are   *)
(* recorded: no refill and a fraction of a token per tick, each with a      *)
(* burst of one.                                                            *)
WinEnvs ==
  { [enabled |-> Unset, rate |-> Val(r), burst |-> Val(1)] : r \in {0, 1} }

(* Half a token per tick with a burst of one. *)
PanicEnvs ==
  { [enabled |-> Unset, rate |-> Val(1), burst |-> Val(1)] }

(* The X-Request-ID header of a request: absent, empty, or a value. *)
Headers == { Unset, Val(<<>>), Val(<<"r">>) }

VARIABLES
  env,      \* the process environment (RATE_LIMIT_* variables)
  ctor,     \* position of RateLimitMiddleware's construction
  cfg,      \* rateLimitConfig captured by the closures
  wrapped,  \* TRUE when the returned handler is the rate-limiting closure
  now,      \* the wall clock
  mu,       \* holder of the store's mutex, or Free
  clients,  \* the map ip -> client{limiter, lastSeen}
  reaper,   \* the reaper goroutine: position, ticks left to sleep, the
            \* entries its sweep loop has still to visit, and as history
            \* the clock and the store at the start of the running sweep
  req,      \* per worker: the request it is serving and its position
  started,  \* number of requests accepted so far
  evicted,  \* history: identities the reaper has deleted at least once
  solo,     \* history: per identity, the entry of a store serving it alone
  log,      \* history: per identity, the decisions of its current entry
  tally     \* history: per identity, requests begun, forwarded, rejected,
            \* and the time of the latest lookup

vars ==
  <<env, ctor, cfg, wrapped, now, mu, clients, reaper, req, started,
    evicted, solo, log, tally>>

(* ------------------------- configuration ------------------------------- *)

\* parser.ParseEnvBool: the variable's value, or the default when unset.
ParseEnvBool(v, def) == IF v[1] = "val" THEN v[2] ELSE def

\* parser.ParseEnvFloat64: value and error; the default when unset.
ParseEnvFloat64(v, def) ==
  IF v[1] = "val" THEN [val |-> v[2], err |-> FALSE]
  ELSE IF v[1] = "bad" THEN [val |-> 0, err |-> TRUE]
  ELSE [val |-> def, err |-> FALSE]

\* parser.ParseEnvInt: value and error; the default when unset.
ParseEnvInt(v, def) ==
  IF v[1] = "val" THEN [val |-> v[2], err |-> FALSE]
  ELSE IF v[1] = "bad" THEN [val |-> 0, err |-> TRUE]
  ELSE [val |-> def, err |-> FALSE]

\* The default rate (tokens per second) in token units per tick.
DefaultRate == defaultRateLimitRate * SecondsPerTick * TokenUnit

\* getRateLimitConfig: the configuration, or a panic on an unparsable number.
getRateLimitConfig(e) ==
  LET enabled == ParseEnvBool(e.enabled, TRUE)
      rl == ParseEnvFloat64(e.rate, DefaultRate)
      bu == ParseEnvInt(e.burst, defaultRateLimitBurst)
  IN  IF ~enabled
        THEN [enabled |-> FALSE, rate |-> DefaultRate,
              burst |-> defaultRateLimitBurst, panic |-> FALSE]
      ELSE IF rl.err
        THEN [enabled |-> TRUE, rate |-> DefaultRate,
              burst |-> defaultRateLimitBurst, panic |-> TRUE]
      ELSE IF bu.err
        THEN [enabled |-> TRUE, rate |-> rl.val,
              burst |-> defaultRateLimitBurst, panic |-> TRUE]
      ELSE [enabled |-> TRUE, rate |-> rl.val, burst |-> bu.val, panic |-> FALSE]

(* --------------------------- net.SplitHostPort ------------------------- *)

RECURSIVE LastIndex(_, _, _)
\* Largest i <= n with s[i] = c, or 0.
LastIndex(s, c, n) ==
  IF n = 0 THEN 0 ELSE IF s[n] = c THEN n ELSE LastIndex(s, c, n - 1)

Contains(s, c) == \E i \in 1..Len(s) : s[i] = c

\* Smallest i with s[i] = c, or 0.
Index(s, c) ==
  IF Contains(s, c)
    THEN CHOOSE i \in 1..Len(s) : s[i] = c /\ \A j \in 1..(i - 1) : s[j] # c
    ELSE 0

\* What net.SplitHostPort returns on an error: empty host and port.
AddrErr == [host |-> <<>>, port |-> <<>>, err |-> TRUE]

\* net.SplitHostPort: the port starts after the last colon, and no colon is
\* "missing port".  A host in brackets must end at the first "]", which
\* must stand right before the last colon, and is returned without the
\* brackets; a host without brackets must hold no colon ("too many
\* colons").  Any other "[" or "]" is an error.
SplitHostPort(hostport) ==
  LET n == Len(hostport)
      i == LastIndex(hostport, ":", n)
      end == Index(hostport, "]")
      bracketed == hostport[1] = "["
      host == IF bracketed THEN SubSeq(hostport, 2, end - 1)
              ELSE SubSeq(hostport, 1, i - 1)
      afterOpen == IF bracketed THEN SubSeq(hostport, 2, n) ELSE hostport
      afterClose == IF bracketed THEN SubSeq(hostport, end + 1, n) ELSE hostport
  IN  IF i = 0 THEN AddrErr
      ELSE IF bracketed /\ end = 0 THEN AddrErr
      ELSE IF bracketed /\ end = n THEN AddrErr
      ELSE IF bracketed /\ end + 1 # i THEN AddrErr
      ELSE IF ~bracketed /\ Contains(host, ":") THEN AddrErr
      ELSE IF Contains(afterOpen, "[") THEN AddrErr
      ELSE IF Contains(afterClose, "]") THEN AddrErr
      ELSE [host |-> host, port |-> SubSeq(hostport, i + 1, n), err |-> FALSE]

(* --------------------------- rate.Limiter ------------------------------ *)

\* The zero time.Time a new limiter's last field holds.
ZeroTime == 0 - 1

Min(a, b) == IF a < b THEN a ELSE b

\* rate.NewLimiter(r, b): a full bucket.
NewLimiter(r, b) ==
  [limit |-> r, burst |-> b, tokens |-> b * TokenUnit, last |-> ZeroTime]

Abs(x) == IF x < 0 THEN 0 - x ELSE x

\* The refill of a limiter whose last field is the zero time: the elapsed
\* time saturates, so the refill is large enough for the cap at burst to
\* decide whatever the bucket holds.
SinceZero(lim) == Abs(lim.burst * TokenUnit) + Abs(lim.tokens)

\* Variant of advance that forgets the cap at burst.
advanceNoCap(lim, t) ==
  LET last == IF t < lim.last THEN t ELSE lim.last
      delta == IF lim.last = ZeroTime
                 THEN (IF lim.limit > 0 THEN SinceZero(lim) ELSE 0)
                 ELSE (IF lim.limit > 0 THEN (t - last) * lim.limit ELSE 0)
  IN  lim.tokens + delta

\* Variant of advance that refills at twice the limit.
advanceTwice(lim, t) ==
  LET last == IF t < lim.last THEN t ELSE lim.last
      delta == IF lim.last = ZeroTime
                 THEN (IF lim.limit > 0 THEN SinceZero(lim) ELSE 0)
                 ELSE (IF lim.limit > 0 THEN (t - last) * lim.limit * 2 ELSE 0)
  IN  Min(lim.burst * TokenUnit, lim.tokens + delta)

\* Limiter.advance: the tokens the bucket holds at time t, capped at burst.
\* Since the zero time a limit above zero has filled the bucket to its cap,
\* also when the burst is negative; a limit that is not above zero refills
\* nothing (tokensFromDuration).
advance(lim, t) ==
  LET last == IF t < lim.last THEN t ELSE lim.last
      delta == IF lim.last = ZeroTime
                 THEN (IF lim.limit > 0 THEN SinceZero(lim) ELSE 0)
                 ELSE (IF lim.limit > 0 THEN (t - last) * lim.limit ELSE 0)
  IN  Min(lim.burst * TokenUnit, lim.tokens + delta)

\* Variant of LimiterAllow whose zero-limit branch consumes nothing.
LimiterAllowNoDecrement(lim, t) ==
  IF lim.limit = 0
    THEN [ok |-> lim.burst >= 1, lim |-> lim]
  ELSE LET tokens == advance(lim, t) - TokenUnit
       IN  IF 1 <= lim.burst /\ tokens >= 0
             THEN [ok |-> TRUE, lim |-> [lim EXCEPT !.last = t, !.tokens = tokens]]
             ELSE [ok |-> FALSE, lim |-> lim]

\* Limiter.Allow at time t (reserveN with n = 1 and no future reserve):
\* the decision and the limiter afterwards.
LimiterAllow(lim, t) ==
  IF lim.limit = 0
    THEN IF lim.burst >= 1
           THEN [ok |-> TRUE, lim |-> [lim EXCEPT !.burst = lim.burst - 1]]
           ELSE [ok |-> FALSE, lim |-> lim]
  ELSE LET tokens == advance(lim, t) - TokenUnit
       IN  IF 1 <= lim.burst /\ tokens >= 0
             THEN [ok |-> TRUE, lim |-> [lim EXCEPT !.last = t, !.tokens = tokens]]
             ELSE [ok |-> FALSE, lim |-> lim]

(* --------------------------- client store ------------------------------ *)

EmptyMap == [ip \in {} |-> 0]

\* Variant of GetOrCreate that leaves a new client's lastSeen at the zero time.
GetOrCreateNoStamp(m, ip, t) ==
  IF ip \notin DOMAIN m
    THEN [k \in DOMAIN m \cup {ip} |->
            IF k = ip
              THEN [limiter |-> NewLimiter(cfg.rate, cfg.burst), lastSeen |-> ZeroTime]
              ELSE m[k]]
    ELSE [m EXCEPT ![ip].lastSeen = t]

\* Variant of GetOrCreate that does not refresh an existing client's lastSeen.
GetOrCreateNoRefresh(m, ip, t) ==
  IF ip \notin DOMAIN m
    THEN [k \in DOMAIN m \cup {ip} |->
            IF k = ip
              THEN [limiter |-> NewLimiter(cfg.rate, cfg.burst), lastSeen |-> t]
              ELSE m[k]]
    ELSE m

\* Lines 145-153: insert a fresh client when absent, else refresh lastSeen.
GetOrCreate(m, ip, t) ==
  IF ip \notin DOMAIN m
    THEN [k \in DOMAIN m \cup {ip} |->
            IF k = ip
              THEN [limiter |-> NewLimiter(cfg.rate, cfg.burst), lastSeen |-> t]
              ELSE m[k]]
    ELSE [m EXCEPT ![ip].lastSeen = t]

\* Variant of StoreAllow with one bucket for all clients: the token is taken
\* from every client's limiter.
StoreAllowGlobal(m, ip, t) ==
  LET a == LimiterAllow(m[ip].limiter, t)
  IN  [ok |-> a.ok,
       m |-> [k \in DOMAIN m |->
                [m[k] EXCEPT !.limiter = LimiterAllow(m[k].limiter, t).lim]]]

\* Line 155: query the limiter of ip's client.
StoreAllow(m, ip, t) ==
  LET a == LimiterAllow(m[ip].limiter, t)
  IN  [ok |-> a.ok, m |-> [m EXCEPT ![ip].limiter = a.lim]]

\* Variant of IsStale that already evicts at exactly the staleness window.
IsStaleInclusive(c, t) == t - c.lastSeen >= Staleness

\* Line 130: the reaper's test of one client.
IsStale(c, t) == t - c.lastSeen > Staleness

\* Lines 130-132: the body of the sweep loop for the entry of ip, with the
\* clock read at t: the entry is deleted when it is stale.
SweepOne(m, ip, t) ==
  IF ip \in DOMAIN m /\ IsStale(m[ip], t)
    THEN [k \in DOMAIN m \ {ip} |-> m[k]]
    ELSE m

(* ------------------------------ requests ------------------------------- *)

NoDuration == 0 - 1

\* Lines 124-126: the reaper before its first sweep and between sweeps.
ReaperAsleep ==
  [pc |-> "sleep", left |-> SweepInterval, todo |-> {}, since |-> 0,
   before |-> EmptyMap]

\* A request task: the fields of the rate-limit closure, then those of the
\* logging and recovery wrappers around it (header read, context value,
\* log entries written, start time and logged duration, what the inner
\* handler saw, the panic in flight and what the recovery wrapper wrote).
IdleReq ==
  [pc |-> "idle", addr |-> <<>>, ip |-> <<>>, err |-> FALSE, resp |-> <<>>,
   fwd |-> 0, seen |-> <<>>, ok |-> FALSE, soloOk |-> FALSE,
   hdr |-> <<>>, id |-> <<>>, logs |-> <<>>, startAt |-> 0,
   dur |-> NoDuration, seenId |-> <<>>, panicked |-> FALSE, panicVal |-> "",
   panicErrs |-> <<>>, connClose |-> FALSE]

InitWith(e) ==
  /\ env = e
  /\ ctor = "init"
  /\ cfg = [enabled |-> FALSE, rate |-> 0, burst |-> 0]
  /\ wrapped = FALSE
  /\ now = 0
  /\ mu = Free
  /\ clients = EmptyMap
  /\ reaper = [ReaperAsleep EXCEPT !.pc = "off", !.left = 0]
  /\ req = [w \in Workers |-> IdleReq]
  /\ started = 0
  /\ evicted = {}
  /\ solo = EmptyMap
  /\ log = EmptyMap
  /\ tally = EmptyMap

\* Variant of Construct without the early return for a disabled
\* configuration: the store, the reaper and the closure always exist.
ConstructAlwaysWrap ==
  /\ ctor = "init"
  /\ LET c == getRateLimitConfig(env)
     IN  IF c.panic
           THEN /\ ctor' = "panicked"
                /\ UNCHANGED <<cfg, wrapped, reaper>>
         ELSE /\ ctor' = "serving"
              /\ cfg' = [enabled |-> c.enabled, rate |-> c.rate, burst |-> c.burst]
              /\ wrapped' = TRUE
              /\ reaper' = ReaperAsleep
  /\ UNCHANGED <<env, now, mu, clients, req, started, evicted, solo, log, tally>>

\* RateLimitMiddleware, lines 105-137: read the configuration; disabled
\* returns next itself, enabled starts the reaper and returns the closure.
Construct ==
  /\ ctor = "init"
  /\ LET c == getRateLimitConfig(env)
     IN  IF c.panic
           THEN /\ ctor' = "panicked"
                /\ UNCHANGED <<cfg, wrapped, reaper>>
         ELSE /\ ctor' = "serving"
              /\ cfg' = [enabled |-> c.enabled, rate |-> c.rate, burst |-> c.burst]
              /\ wrapped' = c.enabled
              /\ reaper' = IF c.enabled
                             THEN ReaperAsleep
                             ELSE reaper
  /\ UNCHANGED <<env, now, mu, clients, req, started, evicted, solo, log, tally>>

\* The clock advances by one tick; a sleeping reaper has one tick less to
\* sleep.
Tick ==
  /\ now < MaxTime
  /\ now' = now + 1
  /\ reaper' = IF reaper.pc = "sleep" /\ reaper.left > 0
                 THEN [reaper EXCEPT !.left = @ - 1]
                 ELSE reaper
  /\ UNCHANGED <<env, ctor, cfg, wrapped, mu, clients, req, started,
                 evicted, solo, log, tally>>

\* History: one more request of identity ip counted under field f.
Count(t, ip, f) ==
  LET old == IF ip \in DOMAIN t THEN t[ip]
             ELSE [n |-> 0, fwd |-> 0, rej |-> 0, last |-> 0, pan |-> 0]
  IN  [k \in DOMAIN t \cup {ip} |->
         IF k = ip THEN [old EXCEPT ![f] = @ + 1] ELSE t[k]]

\* The request task after the first statements of the handler that
\* RateLimitMiddleware returned: the closure (lines 139-142) splits the
\* address and on error writes the server error response, without
\* returning; the unwrapped handler is next itself.
\* Begin: the server calls that handler with a request whose remote address
\* is a, on the first goroutine that is free.
Begun(a) ==
  LET s == SplitHostPort(a)
  IN  IF wrapped
        THEN [IdleReq EXCEPT !.addr = a,
                             !.ip = s.host,
                             !.err = s.err,
                             !.resp = IF s.err THEN <<500>> ELSE <<>>,
                             !.pc = "lock"]
        ELSE [IdleReq EXCEPT !.addr = a, !.pc = "inner"]

Begin(w, a, max) ==
  /\ ctor = "serving"
  /\ req[w].pc \in {"idle", "done"}
  /\ \A v \in 1..(w - 1) : req[v].pc \notin {"idle", "done"}
  /\ started < max
  /\ started' = started + 1
  /\ req' = [req EXCEPT ![w] = Begun(a)]
  /\ tally' = IF wrapped THEN Count(tally, SplitHostPort(a).host, "n") ELSE tally
  /\ UNCHANGED <<env, ctor, cfg, wrapped, now, mu, clients, reaper,
                 evicted, solo, log>>

\* Variant of Lock that does not wait for the mutex to be free.
LockNoWait(w) ==
  /\ req[w].pc = "lock"
  /\ mu' = w
  /\ req' = [req EXCEPT ![w].pc = "lookup"]
  /\ UNCHANGED <<env, ctor, cfg, wrapped, now, clients, reaper, started,
                 evicted, solo, log, tally>>

\* Line 144: mu.Lock().
Lock(w) ==
  /\ req[w].pc = "lock"
  /\ mu = Free
  /\ mu' = w
  /\ req' = [req EXCEPT ![w].pc = "lookup"]
  /\ UNCHANGED <<env, ctor, cfg, wrapped, now, clients, reaper, started,
                 evicted, solo, log, tally>>

\* The entry a store serving only this identity holds after a lookup.
SoloLookup(s, ip, t) ==
  IF ip \in DOMAIN s
    THEN [s EXCEPT ![ip].lastSeen = t]
    ELSE [k \in DOMAIN s \cup {ip} |->
            IF k = ip
              THEN [limiter |-> NewLimiter(cfg.rate, cfg.burst), lastSeen |-> t]
              ELSE s[k]]

\* Lines 145-153: look the client up, creating it when absent.
Lookup(w, rec) ==
  /\ req[w].pc = "lookup"
  /\ clients' = GetOrCreate(clients, req[w].ip, now)
  /\ req' = [req EXCEPT ![w].pc = "allow"]
  /\ solo' = SoloLookup(solo, req[w].ip, now)
  /\ log' = IF req[w].ip \in DOMAIN clients \/ ~rec
              THEN log
              ELSE [k \in DOMAIN log \cup {req[w].ip} |->
                      IF k = req[w].ip
                        THEN [born |-> now, dec |-> <<>>,
                              fwdAt |-> IF k \in DOMAIN log THEN log[k].fwdAt
                                        ELSE <<>>]
                        ELSE log[k]]
  /\ tally' = [tally EXCEPT ![req[w].ip].last = now]
  /\ UNCHANGED <<env, ctor, cfg, wrapped, now, mu, reaper, started, evicted>>

\* Line 155: query the limiter.
Allow(w, rec) ==
  /\ req[w].pc = "allow"
  /\ LET ip == req[w].ip
         a == StoreAllow(clients, ip, now)
         sa == LimiterAllow(solo[ip].limiter, now)
     IN  /\ clients' = a.m
         /\ req' = [req EXCEPT ![w].ok = a.ok,
                                ![w].soloOk = sa.ok,
                                ![w].pc = IF a.ok THEN "unlockOk" ELSE "unlockDeny"]
         /\ solo' = [solo EXCEPT ![ip].limiter = sa.lim]
         /\ log' = IF rec
                     THEN [log EXCEPT ![ip].dec = Append(@, [t |-> now, ok |-> a.ok])]
                     ELSE log
  /\ UNCHANGED <<env, ctor, cfg, wrapped, now, mu, reaper, started, evicted, tally>>

\* Variant of Unlock that releases the mutex on the denied path only.
UnlockDeniedOnly(w) ==
  /\ req[w].pc \in {"unlockOk", "unlockDeny"}
  /\ mu' = IF req[w].pc = "unlockDeny" THEN Free ELSE mu
  /\ req' = [req EXCEPT ![w].pc = IF @ = "unlockOk" THEN "inner" ELSE "respond429"]
  /\ UNCHANGED <<env, ctor, cfg, wrapped, now, clients, reaper, started,
                 evicted, solo, log, tally>>

\* Variant of Unlock that releases the mutex on the admitted path only.
UnlockAdmittedOnly(w) ==
  /\ req[w].pc \in {"unlockOk", "unlockDeny"}
  /\ mu' = IF req[w].pc = "unlockOk" THEN Free ELSE mu
  /\ req' = [req EXCEPT ![w].pc = IF @ = "unlockOk" THEN "inner" ELSE "respond429"]
  /\ UNCHANGED <<env, ctor, cfg, wrapped, now, clients, reaper, started,
                 evicted, solo, log, tally>>

\* Lines 156 and 162: mu.Unlock() on the denied and on the admitted path.
Unlock(w) ==
  /\ req[w].pc \in {"unlockOk", "unlockDeny"}
  /\ mu' = Free
  /\ req' = [req EXCEPT ![w].pc = IF @ = "unlockOk" THEN "inner" ELSE "respond429"]
  /\ UNCHANGED <<env, ctor, cfg, wrapped, now, clients, reaper, started,
                 evicted, solo, log, tally>>

\* Variant of Reject that does not return after writing the response.
RejectNoReturn(w) ==
  /\ req[w].pc = "respond429"
  /\ req' = [req EXCEPT ![w].resp = Append(@, 429), ![w].pc = "inner"]
  /\ tally' = Count(tally, req[w].ip, "rej")
  /\ UNCHANGED <<env, ctor, cfg, wrapped, now, mu, clients, reaper, started,
                 evicted, solo, log>>

\* Lines 157-159: RateLimitExceededResponse, then return.
Reject(w) ==
  /\ req[w].pc = "respond429"
  /\ req' = [req EXCEPT ![w].resp = Append(@, 429), ![w].pc = "done"]
  /\ tally' = Count(tally, req[w].ip, "rej")
  /\ UNCHANGED <<env, ctor, cfg, wrapped, now, mu, clients, reaper, started,
                 evicted, solo, log>>

\* History: identity ip had a request forwarded at time t (kept across
\* evictions, for the identities whose decisions are recorded).
Forwarded(l, ip, t) ==
  IF ip \in DOMAIN l THEN [l EXCEPT ![ip].fwdAt = Append(@, t)] ELSE l

\* Line 164 (or the unwrapped handler): next.ServeHTTP(w, r), and the inner
\* handler returns.
Forward(w) ==
  /\ req[w].pc = "inner"
  /\ req' = [req EXCEPT ![w].fwd = @ + 1,
                        ![w].seen = req[w].addr,
                        ![w].seenId = req[w].id,
                        ![w].pc = "done"]
  /\ tally' = IF wrapped THEN Count(tally, req[w].ip, "fwd") ELSE tally
  /\ log' = IF wrapped THEN Forwarded(log, req[w].ip, now) ELSE log
  /\ UNCHANGED <<env, ctor, cfg, wrapped, now, mu, clients, reaper, started,
                 evicted, solo>>

\* Line 164 (or the unwrapped handler): next.ServeHTTP(w, r), and the inner
\* handler panics with value v.  The closure has no deferred call, so the
\* panic leaves it as it is.
Panic(w, v) ==
  /\ req[w].pc = "inner"
  /\ req' = [req EXCEPT ![w].fwd = @ + 1,
                        ![w].seen = req[w].addr,
                        ![w].seenId = req[w].id,
                        ![w].panicked = TRUE,
                        ![w].panicVal = v,
                        ![w].pc = "panicking"]
  /\ tally' = IF wrapped
                THEN Count(Count(tally, req[w].ip, "fwd"), req[w].ip, "pan")
                ELSE tally
  /\ log' = IF wrapped THEN Forwarded(log, req[w].ip, now) ELSE log
  /\ UNCHANGED <<env, ctor, cfg, wrapped, now, mu, clients, reaper, started,
                 evicted, solo>>

(* ------------------- logging and recovery wrappers --------------------- *)

\* Line 25: r.Header.Get("X-Request-ID"), empty when the header is absent.
HeaderGet(h) == IF h[1] = "val" THEN h[2] ELSE <<>>

\* Lines 31-32: uuid.New().String(), the n-th identifier generated.
GenUUID(n) == <<"u", ToString(n)>>

\* Variant of CorrelationId that stores the header value as it came.
CorrelationIdNoPrefix(h, n) ==
  IF HeaderGet(h) # <<>> THEN HeaderGet(h) ELSE GenUUID(n)

\* Lines 25-33: the value stored in the request context.
CorrelationId(h, n) ==
  IF HeaderGet(h) # <<>>
    THEN <<"e", "x", "t", "-">> \o HeaderGet(h)
    ELSE GenUUID(n)

\* A request with remote address a and X-Request-ID header h enters
\* RecoveryMiddleware (lines 55-62: the deferred recover is armed), then
\* LoggingMiddleware (lines 23-38: context value, "request started"), which
\* calls the handler RateLimitMiddleware returned.
Enter(w, a, h, max) ==
  /\ ctor = "serving"
  /\ req[w].pc \in {"idle", "end"}
  /\ \A v \in 1..(w - 1) : req[v].pc \notin {"idle", "end"}
  /\ started < max
  /\ started' = started + 1
  /\ req' = [req EXCEPT ![w] =
                [Begun(a) EXCEPT !.hdr = HeaderGet(h),
                                 !.id = CorrelationId(h, started + 1),
                                 !.logs = <<"request started">>,
                                 !.startAt = now]]
  /\ tally' = IF wrapped THEN Count(tally, SplitHostPort(a).host, "n") ELSE tally
  /\ UNCHANGED <<env, ctor, cfg, wrapped, now, mu, clients, reaper,
                 evicted, solo, log>>

\* LoggingMiddleware, lines 40-48, reached when next.ServeHTTP returned:
\* "request completed" with the duration in milliseconds.
Complete(w) ==
  /\ req[w].pc = "done"
  /\ req[w].logs # <<>>
  /\ req' = [req EXCEPT ![w].logs = Append(@, "request completed"),
                        ![w].dur = (now - req[w].startAt) * SecondsPerTick * 1000,
                        ![w].startAt = 0,
                        ![w].pc = "end"]
  /\ UNCHANGED <<env, ctor, cfg, wrapped, now, mu, clients, reaper, started,
                 evicted, solo, log, tally>>

\* Variant of Recover that leaves the Connection header alone.
RecoverKeepAlive(w) ==
  /\ req[w].pc = "panicking"
  /\ req' = [req EXCEPT ![w].panicErrs =
                          Append(@, [is |-> "ErrPanic", text |-> req[w].panicVal]),
                        ![w].resp = Append(@, 500),
                        ![w].startAt = 0,
                        ![w].pc = "end"]
  /\ UNCHANGED <<env, ctor, cfg, wrapped, now, mu, clients, reaper, started,
                 evicted, solo, log, tally>>

\* The panic unwinds through LoggingMiddleware, whose lines 40-48 are not
\* deferred and so do not run, into RecoveryMiddleware's deferred function
\* (lines 55-60): recover, Connection: close, ServerErrorResponse with the
\* recovered value wrapped in ErrPanic.
Recover(w) ==
  /\ req[w].pc = "panicking"
  /\ req' = [req EXCEPT ![w].connClose = TRUE,
                        ![w].panicErrs =
                          Append(@, [is |-> "ErrPanic", text |-> req[w].panicVal]),
                        ![w].resp = Append(@, 500),
                        ![w].startAt = 0,
                        ![w].pc = "end"]
  /\ UNCHANGED <<env, ctor, cfg, wrapped, now, mu, clients, reaper, started,
                 evicted, solo, log, tally>>

(* ------------------------------- reaper -------------------------------- *)

\* Line 126: time.Sleep(time.Minute) returns.
ReaperWake ==
  /\ reaper.pc = "sleep"
  /\ reaper.left = 0
  /\ reaper' = [reaper EXCEPT !.pc = "lock"]
  /\ UNCHANGED <<env, ctor, cfg, wrapped, now, mu, clients, req, started,
                 evicted, solo, log, tally>>

\* Lines 128-129: mu.Lock(), then the range statement starts over the
\* entries the store holds (none can be added while the mutex is held).
ReaperLock ==
  /\ reaper.pc = "lock"
  /\ mu = Free
  /\ mu' = Reaper
  /\ reaper' = [reaper EXCEPT !.pc = "sweep", !.todo = DOMAIN clients,
                              !.since = now, !.before = clients]
  /\ UNCHANGED <<env, ctor, cfg, wrapped, now, clients, req, started,
                 evicted, solo, log, tally>>

\* Lines 129-133: one iteration of the sweep loop. The range statement
\* yields the entries in an unspecified order, each once; time.Since reads
\* the clock in the loop body, once per entry, so the clock may advance
\* between two entries of one sweep. The loop ends with its last entry
\* (at once over an empty store).
ReaperSweep ==
  /\ reaper.pc = "sweep"
  /\ IF reaper.todo = {}
       THEN /\ reaper' = [reaper EXCEPT !.pc = "unlock"]
            /\ UNCHANGED <<clients, evicted, solo>>
       ELSE \E ip \in reaper.todo :
              /\ clients' = SweepOne(clients, ip, now)
              /\ reaper' = [reaper EXCEPT
                              !.todo = @ \ {ip},
                              !.pc = IF reaper.todo = {ip} THEN "unlock"
                                                          ELSE "sweep"]
              /\ evicted' = evicted \cup (DOMAIN clients \ DOMAIN clients')
              /\ solo' = SweepOne(solo, ip, now)
  /\ UNCHANGED <<env, ctor, cfg, wrapped, now, mu, req, started, log, tally>>

\* Variant of ReaperUnlock that goes back to sleep holding the mutex.
ReaperSleepLocked ==
  /\ reaper.pc = "unlock"
  /\ reaper' = ReaperAsleep
  /\ UNCHANGED <<env, ctor, cfg, wrapped, now, mu, clients, req, started,
                 evicted, solo, log, tally>>

\* Line 134: mu.Unlock(), then back to sleep.
ReaperUnlock ==
  /\ reaper.pc = "unlock"
  /\ mu' = Free
  /\ reaper' = ReaperAsleep
  /\ UNCHANGED <<env, ctor, cfg, wrapped, now, clients, req, started,
                 evicted, solo, log, tally>>

Init == \E e \in Envs : InitWith(e)

Next ==
  \/ Construct
  \/ Tick
  \/ \E w \in Workers, a \in Addrs : Begin(w, a, MaxRequests)
  \/ \E w \in Workers : Lock(w)
  \/ \E w \in Workers : Lookup(w, FALSE)
  \/ \E w \in Workers : Allow(w, FALSE)
  \/ \E w \in Workers : Unlock(w)
  \/ \E w \in Workers : Reject(w)
  \/ \E w \in Workers : Forward(w)
  \/ ReaperWake
  \/ ReaperLock
  \/ ReaperSweep
  \/ ReaperUnlock

Spec == Init /\ [][Next]_vars

(* The same server reached by one host and by a peer whose remote address  *)
(* cannot be split.                                                        *)
NextErr ==
  \/ Construct
  \/ Tick
  \/ \E w \in Workers, a \in ErrAddrs : Begin(w, a, MaxRequests)
  \/ \E w \in Workers : Lock(w)
  \/ \E w \in Workers : Lookup(w, FALSE)
  \/ \E w \in Workers : Allow(w, FALSE)
  \/ \E w \in Workers : Unlock(w)
  \/ \E w \in Workers : Reject(w)
  \/ \E w \in Workers : Forward(w)
  \/ ReaperWake
  \/ ReaperLock
  \/ ReaperSweep
  \/ ReaperUnlock

SpecErr == Init /\ [][NextErr]_vars

(* One client sending its requests one after the other, with the decisions *)
(* of its entry recorded in log.                                           *)
InitSeq == \E e \in SeqEnvs : InitWith(e)

NextSeq ==
  \/ Construct
  \/ Tick
  \/ \E a \in SeqAddrs : Begin(1, a, MaxSeqRequests)
  \/ Lock(1)
  \/ Lookup(1, TRUE)
  \/ Allow(1, TRUE)
  \/ Unlock(1)
  \/ Reject(1)
  \/ Forward(1)
  \/ ReaperWake
  \/ ReaperLock
  \/ ReaperSweep
  \/ ReaperUnlock

SpecSeq == InitSeq /\ [][NextSeq]_vars

(* The whole chain, RecoveryMiddleware(LoggingMiddleware(RateLimitMiddleware *)
(* (next))), with an inner handler that may panic, serving one request      *)
(* after the other.                                                         *)
InitChain == \E e \in ChainEnvs : InitWith(e)

NextChain ==
  \/ Construct
  \/ Tick
  \/ \E a \in V6Addrs, h \in Headers : Enter(1, a, h, MaxRequests)
  \/ Lock(1)
  \/ Lookup(1, FALSE)
  \/ Allow(1, FALSE)
  \/ Unlock(1)
  \/ Reject(1)
  \/ Forward(1)
  \/ \E v \in PanicValues : Panic(1, v)
  \/ Complete(1)
  \/ Recover(1)
  \/ ReaperWake
  \/ ReaperLock
  \/ ReaperSweep
  \/ ReaperUnlock

SpecChain == InitChain /\ [][NextChain]_vars

(* The chain serving concurrent requests without a request id header, with *)
(* an inner handler that may panic.                                        *)
InitPanic == \E e \in PanicEnvs : InitWith(e)

NextPanic ==
  \/ Construct
  \/ Tick
  \/ \E w \in Workers, a \in ChainAddrs : Enter(w, a, Unset, MaxRequests)
  \/ \E w \in Workers : Lock(w)
  \/ \E w \in Workers : Lookup(w, FALSE)
  \/ \E w \in Workers : Allow(w, FALSE)
  \/ \E w \in Workers : Unlock(w)
  \/ \E w \in Workers : Reject(w)
  \/ \E w \in Workers : Forward(w)
  \/ \E w \in Workers, v \in PanicValues : Panic(w, v)
  \/ \E w \in Workers : Complete(w)
  \/ \E w \in Workers : Recover(w)
  \/ ReaperWake
  \/ ReaperLock
  \/ ReaperSweep
  \/ ReaperUnlock

SpecPanic == InitPanic /\ [][NextPanic]_vars

(* Concurrent requests of one host, with the decisions of its entry and the *)
(* times of forwarding recorded in log.                                     *)
InitWin == \E e \in WinEnvs : InitWith(e)

NextWin ==
  \/ Construct
  \/ Tick
  \/ \E w \in Workers, a \in ChainAddrs : Begin(w, a, MaxRequests + 1)
  \/ \E w \in Workers : Lock(w)
  \/ \E w \in Workers : Lookup(w, TRUE)
  \/ \E w \in Workers : Allow(w, TRUE)
  \/ \E w \in Workers : Unlock(w)
  \/ \E w \in Workers : Reject(w)
  \/ \E w \in Workers : Forward(w)
  \/ ReaperWake
  \/ ReaperLock
  \/ ReaperSweep
  \/ ReaperUnlock

SpecWin == InitWin /\ [][NextWin]_vars

(* Concurrent requests of one host under fair scheduling: a goroutine that *)
(* can take its next step inside the closure or the reaper loop eventually *)
(* takes it, and a goroutine blocked in mu.Lock() gets the mutex when it   *)
(* is released again and again (sync.Mutex hands a starved waiter the      *)
(* mutex directly).  Nothing obliges a client to send a request, the clock *)
(* to advance or the inner handler to return.                              *)
InitLive == \E e \in PanicEnvs : InitWith(e)

NextLive ==
  \/ Construct
  \/ Tick
  \/ \E w \in Workers, a \in ChainAddrs : Begin(w, a, MaxRequests)
  \/ \E w \in Workers : Lock(w)
  \/ \E w \in Workers : Lookup(w, FALSE)
  \/ \E w \in Workers : Allow(w, FALSE)
  \/ \E w \in Workers : Unlock(w)
  \/ \E w \in Workers : Reject(w)
  \/ \E w \in Workers : Forward(w)
  \/ ReaperWake
  \/ ReaperLock
  \/ ReaperSweep
  \/ ReaperUnlock

Fairness ==
  /\ \A w \in Workers :
       /\ SF_vars(Lock(w))
       /\ WF_vars(Lookup(w, FALSE))
       /\ WF_vars(Allow(w, FALSE))
       /\ WF_vars(Unlock(w))
  /\ WF_vars(ReaperWake)
  /\ SF_vars(ReaperLock)
  /\ WF_vars(ReaperSweep)
  /\ WF_vars(ReaperUnlock)

SpecLive == InitLive /\ [][NextLive]_vars /\ Fairness

TypeOK ==
  /\ now \in 0..MaxTime
  /\ mu \in Workers \cup {Reaper, Free}
  /\ started \in 0..(MaxRequests + MaxSeqRequests)
  /\ reaper.pc \in {"off", "sleep", "lock", "sweep", "unlock"}
  /\ \A w \in Workers :
       req[w].pc \in {"idle", "lock", "lookup", "allow", "unlockOk", "unlockDeny",
                      "respond429", "inner", "done", "panicking", "end"}

(* ------------------------------ properties ----------------------------- *)

\* Tokens a request at time t finds available in the limiter, in token units.
Available(lim, t) ==
  IF lim.limit = 0 THEN lim.burst * TokenUnit ELSE advance(lim, t)

Decided(w) ==
  req[w].pc \in {"unlockOk", "unlockDeny", "respond429", "done"}
  \/ (wrapped /\ req[w].pc = "inner")

InFlight(ip) ==
  \E w \in Workers : req[w].ip = ip /\ req[w].pc \notin {"idle", "done"}

\* Requests of ip the limiter has admitted: forwarded, or about to be.
Admitted(ip) ==
  tally[ip].fwd
  + Cardinality({ w \in Workers :
                    req[w].ip = ip /\ req[w].pc \in {"unlockOk", "inner"} })

Count429(resp) == Cardinality({ i \in 1..Len(resp) : resp[i] = 429 })

\* C1: with burst 1 and rate 0, of the requests of one identity whose entry
\* the reaper has not evicted, at most one is ever admitted, and once none
\* of them is in flight exactly one was forwarded and all the others were
\* rejected with the rate-limit-exceeded response.
C1_ExactlyOneAdmitted ==
  (wrapped /\ cfg.burst = 1 /\ cfg.rate = 0) =>
    \A ip \in DOMAIN tally \ evicted :
      /\ Admitted(ip) <= 1
      /\ ~InFlight(ip) =>
           /\ tally[ip].fwd = 1
           /\ tally[ip].rej = tally[ip].n - 1

\* Two requests of one identity in flight together, one admitted, one denied.
C1_Witness ==
  /\ wrapped /\ cfg.burst = 1 /\ cfg.rate = 0
  /\ \E w1, w2 \in Workers :
       /\ w1 # w2
       /\ req[w1].ip = req[w2].ip
       /\ req[w1].ip \notin evicted
       /\ req[w1].pc = "inner"
       /\ req[w2].pc = "respond429"

\* The first k decisions of the entry were taken at its creation time.
AtBirth(L, k) == \A j \in 1..k : L.dec[j].t = L.born

\* Whole tokens gained while waiting from the entry's creation until t.
Refilled(L, t) == ((t - L.born) * cfg.rate) \div TokenUnit

\* Decisions B+2..k were all taken at one instant, at least 1/R after the
\* creation, and follow B+1 decisions taken at creation time.
AfterWait(L, k) ==
  /\ Len(L.dec) >= k
  /\ k >= cfg.burst + 2
  /\ AtBirth(L, cfg.burst + 1)
  /\ \A j \in (cfg.burst + 2)..k : L.dec[j].t = L.dec[k].t
  /\ (L.dec[k].t - L.born) * cfg.rate >= TokenUnit

C2_Burst(L) ==
  /\ \A k \in 1..Len(L.dec) : (k <= cfg.burst /\ AtBirth(L, k)) => L.dec[k].ok
  /\ (Len(L.dec) >= cfg.burst + 1 /\ AtBirth(L, cfg.burst + 1))
       => ~L.dec[cfg.burst + 1].ok

\* C2 as stated: B immediate requests are admitted, the (B+1)-th is denied,
\* and after a wait of at least 1/R exactly one more request is admitted.
C2_Original ==
  (wrapped /\ cfg.rate > 0) =>
    \A ip \in DOMAIN log :
      /\ C2_Burst(log[ip])
      /\ \A k \in 1..Len(log[ip].dec) :
           AfterWait(log[ip], k) => (log[ip].dec[k].ok <=> k = cfg.burst + 2)

\* C2, amended: B immediate requests are admitted, the (B+1)-th is denied,
\* and after a wait of w >= 1/R the next min(B, floor(w*R)) immediate
\* requests are admitted and the one after them is denied.
C2_TokenBucket ==
  (wrapped /\ cfg.rate > 0) =>
    \A ip \in DOMAIN log :
      /\ C2_Burst(log[ip])
      /\ \A k \in 1..Len(log[ip].dec) :
           AfterWait(log[ip], k) =>
             (log[ip].dec[k].ok <=>
                k - (cfg.burst + 1)
                  <= Min(cfg.burst, Refilled(log[ip], log[ip].dec[k].t)))

\* A burst, a denial, a wait, one admission and a denial right after it.
C2_Witness ==
  /\ wrapped /\ cfg.rate > 0
  /\ \E ip \in DOMAIN log :
       /\ AfterWait(log[ip], cfg.burst + 3)
       /\ \A k \in 1..cfg.burst : log[ip].dec[k].ok
       /\ ~log[ip].dec[cfg.burst + 1].ok
       /\ log[ip].dec[cfg.burst + 2].ok
       /\ ~log[ip].dec[cfg.burst + 3].ok

\* C3: a request whose remote address cannot be split is answered with the
\* server error and is never passed to the inner handler.
C3_ErrorNotForwarded ==
  \A w \in Workers :
    req[w].err =>
      /\ \E i \in 1..Len(req[w].resp) : req[w].resp[i] = 500
      /\ req[w].fwd = 0

\* C4: no step of a request whose remote address cannot be split changes
\* the client store.
C4_ErrorLeavesStore ==
  [][\A w \in Workers :
       (req[w].err /\ req[w].pc \notin {"idle", "done"} /\ req'[w].pc # req[w].pc)
         => clients' = clients]_vars

\* C5: once the limiter has been queried for a request, a denial writes the
\* rate-limit-exceeded response once and never invokes the inner handler,
\* and an admission invokes the inner handler exactly once, with the
\* request unchanged, and writes no rate-limit response.
C5_AdmitOrReject ==
  wrapped =>
    \A w \in Workers :
      /\ req[w].fwd <= 1
      /\ Count429(req[w].resp) <= 1
      /\ ~Decided(w) => (req[w].fwd = 0 /\ Count429(req[w].resp) = 0)
      /\ req[w].fwd = 1 => (req[w].ok /\ req[w].seen = req[w].addr)
      /\ Count429(req[w].resp) = 1 => ~req[w].ok
      /\ req[w].pc = "done" =>
           IF req[w].ok
             THEN req[w].fwd = 1 /\ Count429(req[w].resp) = 0
             ELSE req[w].fwd = 0 /\ Count429(req[w].resp) = 1

\* One finished request was admitted and forwarded, another was rejected.
C5_Witness ==
  /\ wrapped
  /\ \E w1, w2 \in Workers :
       /\ req[w1].pc = "done" /\ req[w1].ok /\ req[w1].fwd = 1
       /\ req[w1].seen = req[w1].addr
       /\ req[w2].pc = "done" /\ ~req[w2].ok /\ req[w2].resp = <<429>>

\* C6: every identity's entry, and every decision given to its requests, is
\* the one a store serving that identity alone (same request times, same
\* sweep times) would hold and give.
C6_Isolation ==
  wrapped =>
    /\ DOMAIN clients = DOMAIN solo
    /\ \A ip \in DOMAIN clients : clients[ip] = solo[ip]
    /\ \A w \in Workers : Decided(w) => req[w].ok = req[w].soloOk

\* Two identities in the store together: one has used up its bucket, and
\* the other is admitted all the same, after a sweep has run.
C6_Witness ==
  /\ wrapped
  /\ \E w1, w2 \in Workers :
       /\ ~req[w1].err /\ ~req[w2].err
       /\ req[w1].ip # req[w2].ip
       /\ {req[w1].ip, req[w2].ip} \subseteq DOMAIN clients
       /\ req[w1].pc = "done" /\ req[w1].ok
       /\ Available(clients[req[w1].ip].limiter, now) < TokenUnit
       /\ req[w2].pc = "inner" /\ req[w2].ok
       /\ now > SweepInterval

\* C7 as stated, with one sweep time for the whole sweep: when a sweep
\* ends there is a time t within the sweep such that the sweep has removed
\* exactly the entries whose lastSeen is more than the staleness window
\* before t and has left the others as they were.
C7_Original ==
  [][(reaper.pc = "sweep" /\ reaper'.pc = "unlock") =>
       \E t \in reaper.since .. now :
         /\ DOMAIN clients' \subseteq DOMAIN reaper.before
         /\ \A ip \in DOMAIN reaper.before :
              IF t - reaper.before[ip].lastSeen > Staleness
                THEN ip \notin DOMAIN clients'
                ELSE /\ ip \in DOMAIN clients'
                     /\ clients'[ip] = reaper.before[ip]]_vars

\* C7: a sweep tests every entry of the store once, each against the clock
\* as read at its own test: it removes the entry when its lastSeen is then
\* more than the staleness window old and changes nothing else. So a sweep
\* removes every entry that was older than the window when it began, none
\* that is not older than the window when it ends, and leaves the surviving
\* entries as they were; an identity idle for longer than the window when
\* a sweep begins is absent from the store when that sweep ends.
C7_SweepExact ==
  /\ [][(reaper.pc = "lock" /\ reaper'.pc = "sweep") =>
          reaper'.todo = DOMAIN clients /\ clients' = clients]_vars
  /\ [][(reaper.pc = "sweep" /\ reaper' # reaper) =>
          /\ reaper.todo \subseteq DOMAIN clients
          /\ reaper'.todo \subseteq reaper.todo
          /\ Cardinality(reaper.todo \ reaper'.todo) <= 1
          /\ DOMAIN clients' \subseteq DOMAIN clients
          /\ \A ip \in DOMAIN clients :
               IF ip \in reaper.todo \ reaper'.todo
                    /\ now - clients[ip].lastSeen > Staleness
                 THEN ip \notin DOMAIN clients'
                 ELSE ip \in DOMAIN clients' /\ clients'[ip] = clients[ip]]_vars
  /\ [][(reaper.pc = "sweep" /\ reaper'.pc = "unlock") =>
          /\ reaper'.todo = {}
          /\ DOMAIN clients' \subseteq DOMAIN reaper.before
          /\ \A ip \in DOMAIN reaper.before :
               /\ reaper.since - reaper.before[ip].lastSeen > Staleness
                    => ip \notin DOMAIN clients'
               /\ now - reaper.before[ip].lastSeen <= Staleness
                    => ip \in DOMAIN clients'
               /\ ip \in DOMAIN clients' => clients'[ip] = reaper.before[ip]]_vars

\* A sweep during which the clock advanced has just ended: of two entries
\* with the same lastSeen it has kept the one it tested first and removed
\* the one it tested after the staleness window had passed.
C7_Witness ==
  /\ reaper.pc = "unlock"
  /\ reaper.since < now
  /\ \E a, b \in DOMAIN reaper.before :
       /\ reaper.before[a].lastSeen = reaper.before[b].lastSeen
       /\ a \in DOMAIN clients
       /\ b \notin DOMAIN clients

\* C8: the lookup of a request whose identity has no entry adds exactly one
\* entry, for that identity, with burst tokens available and lastSeen = now;
\* the lookup of a request whose identity has an entry keeps that entry's
\* limiter and adds nothing.
C8_FreshOrReuse ==
  [][\A w \in Workers :
       (req[w].pc = "lookup" /\ req'[w].pc = "allow") =>
         LET ip == req[w].ip
         IN  /\ \A k \in DOMAIN clients \ {ip} :
                  k \in DOMAIN clients' /\ clients'[k] = clients[k]
             /\ DOMAIN clients' = DOMAIN clients \cup {ip}
             /\ IF ip \in DOMAIN clients
                  THEN clients'[ip].limiter = clients[ip].limiter
                  ELSE /\ Available(clients'[ip].limiter, now) = cfg.burst * TokenUnit
                       /\ clients'[ip].limiter.burst = cfg.burst
                       /\ clients'[ip].lastSeen = now]_vars

\* An identity that had used a token and was evicted has a full bucket again.
C8_Witness ==
  /\ wrapped
  /\ \E w \in Workers :
       /\ req[w].pc = "allow"
       /\ req[w].ip \in evicted
       /\ tally[req[w].ip].fwd >= 1
       /\ Available(clients[req[w].ip].limiter, now) = cfg.burst * TokenUnit
       /\ clients[req[w].ip].lastSeen = now

C9_Fresh ==
  /\ \A ip \in DOMAIN clients : clients[ip].lastSeen = tally[ip].last
  /\ \A w \in Workers :
       req[w].pc = "allow" =>
         /\ req[w].ip \in DOMAIN clients
         /\ clients[req[w].ip].lastSeen <= now

\* C9: every request that reaches the limiter, admitted or denied, has set
\* its identity's lastSeen to the time of its lookup before the decision,
\* and the reaper removes an identity only when its latest request is more
\* than the staleness window old.
C9_LastSeenRefreshed ==
  /\ []C9_Fresh
  /\ [][\A w \in Workers :
          (req[w].pc = "lookup" /\ req'[w].pc = "allow") =>
            clients'[req[w].ip].lastSeen = now]_vars
  /\ [][\A ip \in DOMAIN clients :
          ip \notin DOMAIN clients' => now - tally[ip].last > Staleness]_vars

\* An identity kept alive by a denied request: past the staleness window
\* since the start, a sweep has just run and its first entry is still there.
C9_Witness ==
  /\ reaper.pc = "unlock"
  /\ now > Staleness
  /\ \E w \in Workers :
       /\ Decided(w) /\ ~req[w].ok /\ ~req[w].err
       /\ req[w].ip \in DOMAIN clients \ evicted
       /\ clients[req[w].ip].lastSeen > 0
       /\ tally[req[w].ip].fwd >= 1

\* C10: with rate limiting disabled the handler is the inner handler: every
\* request reaches it unchanged, none is rejected, no client entry exists,
\* no reaper runs and the lock is never taken.
C10_DisabledPassThrough ==
  (ctor = "serving" /\ ~getRateLimitConfig(env).enabled) =>
    /\ ~wrapped
    /\ clients = EmptyMap
    /\ reaper.pc = "off"
    /\ mu = Free
    /\ \A w \in Workers :
         /\ req[w].pc \in {"idle", "inner", "done"}
         /\ req[w].resp = <<>>
         /\ req[w].pc = "done" => (req[w].fwd = 1 /\ req[w].seen = req[w].addr)

\* All requests of a disabled configuration have reached the inner handler.
C10_Witness ==
  /\ ctor = "serving" /\ ~getRateLimitConfig(env).enabled
  /\ started = MaxRequests
  /\ \A w \in Workers : req[w].pc = "done" /\ req[w].fwd = 1

\* C11: a request whose inner handler panicked leaves RecoveryMiddleware
\* with Connection: close set and exactly one server error response written
\* for the panic, wrapping the recovered value as ErrPanic; the server keeps
\* serving, and a request that did not panic ends with no such response,
\* either forwarded once or rejected with 429.
C11_PanicRecovered ==
  \A w \in Workers :
    req[w].pc = "end" =>
      /\ ctor = "serving"
      /\ req[w].panicked =>
           /\ req[w].connClose
           /\ req[w].panicErrs = <<[is |-> "ErrPanic", text |-> req[w].panicVal]>>
           /\ req[w].resp # <<>>
           /\ req[w].resp[Len(req[w].resp)] = 500
           /\ Count429(req[w].resp) = 0
      /\ ~req[w].panicked =>
           /\ ~req[w].connClose
           /\ req[w].panicErrs = <<>>
           /\ (req[w].fwd = 1 /\ Count429(req[w].resp) = 0)
              \/ (req[w].fwd = 0 /\ Count429(req[w].resp) = 1)

\* A request served to its normal end after an earlier request of the same
\* client panicked.
C11_Witness ==
  /\ wrapped
  /\ <<"a">> \in DOMAIN tally
  /\ tally[<<"a">>].pan >= 1
  /\ req[1].pc = "end"
  /\ ~req[1].panicked
  /\ req[1].fwd = 1
  /\ req[1].logs = <<"request started", "request completed">>

\* C12: the step in which the inner handler of an admitted request panics
\* changes neither the client store nor the mutex, and a task whose inner
\* handler panicked does not hold the mutex, so it stays available to the
\* other requests and to the reaper.
C12_PanicLeavesStore ==
  [][\A w \in Workers :
       /\ (req[w].pc = "inner" /\ req'[w].pc = "panicking") =>
            /\ clients' = clients
            /\ mu' = mu
       /\ (req'[w].pc = "panicking" \/ req'[w].panicked) => mu' # w]_vars

\* The first request panicked; the second one, served by the same task
\* afterwards, has taken the mutex and been admitted.
C12_Witness ==
  /\ wrapped
  /\ <<"a">> \in DOMAIN tally
  /\ tally[<<"a">>].pan = 1
  /\ req[1].id = GenUUID(2)
  /\ req[1].pc = "unlockOk"
  /\ mu = 1

\* The context value r carries is the one its header calls for: "ext-"
\* followed by a non-empty header value, a generated identifier otherwise.
IdMatchesHeader(r) ==
  IF r.hdr # <<>>
    THEN /\ Len(r.id) = Len(r.hdr) + 4
         /\ SubSeq(r.id, 1, 4) = <<"e", "x", "t", "-">>
         /\ SubSeq(r.id, 5, Len(r.id)) = r.hdr
    ELSE /\ Len(r.id) = 2
         /\ r.id[1] = "u"

\* C13: a request that entered LoggingMiddleware carries one correlation
\* identifier, "ext-" followed by the X-Request-ID value when that header
\* is present and non-empty and a generated one otherwise; the inner
\* handler observes that identifier, and no later step of the request
\* changes it.
C13_CorrelationId ==
  [][\A w \in Workers :
       req'[w].logs # <<>> =>
         /\ IdMatchesHeader(req'[w])
         /\ req'[w].fwd > 0 => req'[w].seenId = req'[w].id
         /\ req[w].pc \notin {"idle", "end"} => req'[w].id = req[w].id]_vars

\* The second request served carried an X-Request-ID header, and its inner
\* handler ran and saw the prefixed identifier.
C13_Witness ==
  /\ started = 2
  /\ req[1].pc = "end"
  /\ req[1].fwd = 1
  /\ req[1].hdr = <<"r">>
  /\ req[1].id = <<"e", "x", "t", "-", "r">>
  /\ req[1].seenId = req[1].id

\* C14: every request that has left the chain, whatever its outcome
\* (forwarded, answered with 429, or panicked in the inner handler), has
\* its "request started" entry followed by exactly one "request completed"
\* entry.
C14_Original ==
  \A w \in Workers :
    req[w].pc = "end" =>
      req[w].logs = <<"request started", "request completed">>

\* C15: once the rate-limiting handler and its store exist and hold an
\* entry, the configuration they were built from has a rate above zero and
\* a burst above zero.
C15_ValidConfig ==
  (wrapped /\ clients # EmptyMap) => (cfg.rate > 0 /\ cfg.burst > 0)

\* Request task w is between taking and releasing the mutex.
InCS(w) == req[w].pc \in {"lookup", "allow", "unlockOk", "unlockDeny"}

ReaperInCS == reaper.pc \in {"sweep", "unlock"}

\* C16: a task inside its critical section is the holder of the mutex, so
\* no two tasks are inside together; the store changes only in a step of
\* the holder; and from a request's lookup to its limiter query its entry
\* is in the store and no other task changes the store.
C16_MutualExclusion ==
  [][/\ \A w \in Workers : InCS(w)' => mu' = w
     /\ ReaperInCS' => mu' = Reaper
     /\ clients' # clients =>
          /\ mu # Free
          /\ mu' = mu
          /\ IF mu = Reaper THEN reaper' # reaper /\ req' = req
                            ELSE req'[mu] # req[mu] /\ reaper' = reaper
     /\ \A w \in Workers :
          /\ req'[w].pc = "allow" => req'[w].ip \in DOMAIN clients'
          /\ (req[w].pc = "allow" /\ req'[w].pc = "allow") => clients' = clients]_vars

\* One request is between its lookup and its limiter query while another
\* request and the woken reaper wait for the mutex.
C16_Witness ==
  /\ req[1].pc = "allow"
  /\ req[2].pc = "lock"
  /\ reaper.pc = "lock"
  /\ now > Staleness

\* C17: a request task does not hold the mutex before its critical section
\* or after it - while it writes the 429 or the server error response or
\* while the inner handler runs - and the reaper does not hold it while it
\* sleeps or waits for it.
C17_NoLockOutside ==
  [][/\ \A w \in Workers :
          /\ ~InCS(w)' => mu' # w
          /\ req'[w].resp # req[w].resp => (mu # w /\ mu' # w)
          /\ req'[w].fwd # req[w].fwd => (mu # w /\ mu' # w)
     /\ ~ReaperInCS' => mu' # Reaper]_vars

\* One request is about to write its 429 and the other, whose address did
\* not split and which has written the server error, runs the inner
\* handler, while the reaper holds the mutex.
C17_Witness ==
  /\ \E w1, w2 \in Workers :
       /\ req[w1].pc = "respond429"
       /\ req[w2].pc = "inner"
       /\ req[w2].resp = <<500>>
  /\ mu = Reaper

\* C18: the tokens available in every entry are between 0 and the burst;
\* a limiter query that admits lowers them by exactly one token and one
\* that denies leaves the store as it was.
C18_TokenCount ==
  [][/\ \A ip \in DOMAIN clients' :
          /\ Available(clients'[ip].limiter, now') >= 0
          /\ Available(clients'[ip].limiter, now') <= cfg'.burst * TokenUnit
     /\ \A w \in Workers :
          (req[w].pc = "allow" /\ req'[w].pc # "allow") =>
            LET ip == req[w].ip
                before == Available(clients[ip].limiter, now)
                after == Available(clients'[ip].limiter, now)
            IN  IF req'[w].ok
                  THEN after = before - TokenUnit
                  ELSE after = before /\ clients' = clients]_vars

\* Of the events at the given times, those within any window number at
\* most burst + rate * (length of the window), counted in token units.
WindowBound(times) ==
  \A i, j \in 1..Len(times) :
    i <= j =>
      (j - i + 1) * TokenUnit
        <= cfg.burst * TokenUnit + cfg.rate * (times[j] - times[i])

\* The times at which the current entry of a client admitted a request.
AdmitTimes(L) ==
  LET S == SelectSeq(L.dec, LAMBDA d : d.ok)
  IN  [i \in 1..Len(S) |-> S[i].t]

\* C19 as stated: the requests of one identity forwarded to the inner
\* handler within any window of length T number at most burst + rate * T.
C19_Original ==
  wrapped => \A ip \in DOMAIN log : WindowBound(log[ip].fwdAt)

\* C19: the requests of one identity that one entry of the store admits
\* within any window of length T number at most burst + rate * T, however
\* the request tasks and the reaper's sweeps interleave.
C19_AdmissionBound ==
  wrapped => \A ip \in DOMAIN log : WindowBound(AdmitTimes(log[ip]))

\* An entry that, over a window longer than zero, has admitted exactly
\* burst + rate * T requests, two of them in flight together: one in the
\* inner handler, the other still holding the mutex.
C19_Witness ==
  /\ wrapped
  /\ \E ip \in DOMAIN log :
       LET T == AdmitTimes(log[ip])
       IN  /\ Len(T) > cfg.burst
           /\ T[Len(T)] > T[1]
           /\ Len(T) * TokenUnit
                = cfg.burst * TokenUnit + cfg.rate * (T[Len(T)] - T[1])
  /\ \E w1, w2 \in Workers :
       /\ w1 # w2
       /\ req[w1].pc = "inner"
       /\ req[w2].pc = "unlockOk"

\* C20: the mutex is only ever held by a task inside its critical section,
\* which can always take its next step; under fair scheduling every request
\* waiting for the mutex reaches its decision and has released the mutex,
\* the reaper once started never stops, and every time its sleep is over
\* it sweeps and goes back to sleep with the mutex released.
C20_Progress ==
  /\ [](/\ mu \in Workers => InCS(mu)
        /\ mu = Reaper => ReaperInCS
        /\ ctor = "serving" /\ wrapped => reaper.pc # "off")
  /\ \A w \in Workers :
       (req[w].pc = "lock") ~>
         (req[w].pc \in {"inner", "respond429"} /\ mu # w)
  /\ (reaper.pc = "sleep" /\ reaper.left = 0) ~> (reaper.pc = "sweep")
  /\ (reaper.pc = "sweep") ~> (reaper.pc = "sleep" /\ mu # Reaper)

\* Two requests wait for the mutex while the reaper sweeps.
C20_Witness ==
  /\ \A w \in Workers : req[w].pc = "lock"
  /\ reaper.pc = "sweep"
  /\ mu = Reaper

====
